---- MODULE Spec2Model ----
(***************************************************************************)
(* gsfont: a codec between 8-pixel-wide glyph bitmaps and generated MIPS   *)
(* "row renderer" routines (src/main.rs).                                  *)
(*                                                                         *)
(*   build_function  emits the routine of one 8-bit row pattern            *)
(*   build           packs glyphs, collects extra rows, writes the tables  *)
(*                   and the routine bodies                                *)
(*   parse_function  decodes one routine from a byte cursor                *)
(*   extract         reads the offset table and decodes the routines       *)
(*                                                                         *)
(* A 32-bit word is kept as its four big-endian bytes <<b0, b1, b2, b3>>:  *)
(* the instruction words exceed the integers TLC computes with.            *)
(***************************************************************************)
EXTENDS Integers, Sequences, FiniteSets, TLC

VARIABLES
    pc,          \* position of the modelled run
    row,         \* build_function: the row pattern (u8)
    double,      \* build_function: double-width mode
    matching,    \* build_function: patch (matching) mode
    rv,          \* build_function: the emitted routine, a sequence of instructions
    data,        \* the input bytes: pixels (build) or the binary blob (parse, extract)
    parsed,      \* parse_function: what the call returned
    extra,       \* build: the preloaded extra-row pixels, Option<&[u8]>
    char_rows,   \* build: the packed rows of every glyph
    extra_rows,  \* build: the extra-row table
    out,         \* build: the output module, a sequence of items
    vram,        \* extract: the table's load address (u32)
    num_chars,   \* extract: the number of glyphs
    extra_offset,    \* extract: where the extra-region scan starts
    overflow_checks, \* the build profile: integer overflow panics (debug) or wraps (release)
    offsets,     \* extract: the file-relative positions read from the offset table
    cursor,      \* extract: the cursor's position in data[offsets_len..]
    called_at,   \* extract: the cursor's position at the last call of parse_function
    next_row,    \* extract: how many primary row offsets have been decoded
    font,        \* extract: the primary output
    extra_out,   \* extract: the extra-region output (the local `extra`)
    outcome      \* extract: "running", or how it ended: "ok", "err", "panic"

---------------------------------------------------------------------------
(* Program constants *)

\* const SCREEN_WIDTH: i16 = 640
SCREEN_WIDTH == 640
\* type Pixel = u16: size_of::<Pixel>()
SizeOfPixel == 2
\* size_of::<u32>()
SizeOfU32 == 4
\* u8::BITS
U8_BITS == 8

Byte == 0..255

---------------------------------------------------------------------------
(* build_function *)

\* One emitted line: "lw s0, 0(a0)", "addi a0, a0, n", "sh s1, n(a1)",
\* "sw s1, n(a1)", "jr s0", " addi a1, a1, n" (the delay slot).
Instr(op, imm) == [op |-> op, imm |-> imm]

\* let pair = (row >> (u8::BITS - i - 2)) & 0b00000011
PairOf(r, i) == (r \div 2^(U8_BITS - i - 2)) % 4

\* (mutant) the patch is lost: always two half-stores.
SinglePair11Unpatched(r, i, m) ==
    << Instr("sh", i * SizeOfPixel), Instr("sh", (i + 1) * SizeOfPixel) >>

\* The 0b11 arm of the single-width branch, where the patch lives.
SinglePair11(r, i, m) ==
    << IF m /\ r = 216 /\ i = 0
         THEN Instr("sw", i * SizeOfPixel)
         ELSE Instr("sh", i * SizeOfPixel),
       Instr("sh", (i + 1) * SizeOfPixel) >>

\* The 0b11 arm of the double-width branch.
DoublePair11(r, i, m) == << Instr("sw", i * SizeOfPixel) >>

\* (mutant) the two columns of a group are swapped.
HalfPairSwapped(p, i) ==
    IF p = 1 THEN << Instr("sh", i * SizeOfPixel) >>
             ELSE << Instr("sh", (i + 1) * SizeOfPixel) >>

\* The 0b01 and 0b10 arms, the same in both branches.
HalfPair(p, i) ==
    IF p = 1 THEN << Instr("sh", (i + 1) * SizeOfPixel) >>
             ELSE << Instr("sh", i * SizeOfPixel) >>

\* One iteration of the loop over i = 0, 2, 4, 6: the match on pair.
PairStores(r, i, d, m) ==
    LET p == PairOf(r, i) IN
    IF d
      THEN CASE p = 0 -> << >>
             [] p = 1 -> HalfPair(p, i)
             [] p = 2 -> HalfPair(p, i)
             [] p = 3 -> DoublePair11(r, i, m)
      ELSE CASE p = 0 -> << >>
             [] p = 1 -> HalfPair(p, i)
             [] p = 2 -> HalfPair(p, i)
             [] p = 3 -> SinglePair11(r, i, m)

\* for i in (0..u8::BITS).step_by(2)
RECURSIVE StoreLoop(_, _, _, _)
StoreLoop(r, i, d, m) ==
    IF i >= U8_BITS THEN << >>
    ELSE PairStores(r, i, d, m) \o StoreLoop(r, i + 2, d, m)

build_function(r, d, m) ==
    << Instr("lw", 0), Instr("addi_a0", SizeOfU32) >>
    \o StoreLoop(r, 0, d, m)
    \o << Instr("jr", 0), Instr("addi_a1", SCREEN_WIDTH * SizeOfPixel) >>

---------------------------------------------------------------------------
(* Instruction words *)

\* lw $s0, 0($a0)
LW_S0 == <<140, 144, 0, 0>>
\* addi $a0, $a0, 4
ADDI_A0 == <<32, 132, 0, 4>>
\* jr $s0
JR_S0 == <<2, 0, 0, 8>>
\* lw $s1, 0($sp)
LW_S1_SP == <<143, 177, 0, 0>>
\* addi $sp, $sp, 4
ADDI_SP == <<35, 189, 0, 4>>

\* The machine word of one emitted line: sh $s1, n($a1) is 0xA4B1nnnn,
\* sw $s1, n($a1) is 0xACB1nnnn, addi $a1, $a1, n is 0x20A5nnnn.
Encode(ins) ==
    CASE ins.op = "lw"      -> LW_S0
      [] ins.op = "addi_a0" -> <<32, 132, ins.imm \div 256, ins.imm % 256>>
      [] ins.op = "sh"      -> <<164, 177, ins.imm \div 256, ins.imm % 256>>
      [] ins.op = "sw"      -> <<172, 177, ins.imm \div 256, ins.imm % 256>>
      [] ins.op = "jr"      -> JR_S0
      [] ins.op = "addi_a1" -> <<32, 165, ins.imm \div 256, ins.imm % 256>>

RECURSIVE Assemble(_)
Assemble(body) ==
    IF body = << >> THEN << >> ELSE Encode(Head(body)) \o Assemble(Tail(body))

---------------------------------------------------------------------------
(* parse_function *)

\* cursor.read_u32::<BE>(): four bytes at the cursor, or an UnexpectedEof error
\* when fewer than four are left (also when the position is past the end).
read_u32(d, pos) ==
    IF pos + 4 <= Len(d)
      THEN [ok |-> TRUE, pos |-> pos + 4,
            val |-> <<d[pos + 1], d[pos + 2], d[pos + 3], d[pos + 4]>>]
      ELSE [ok |-> FALSE, pos |-> pos, val |-> << >>]

\* What a call returns: Ok(Some(pixels)), Ok(None), Err(_) through `?`, or a
\* panic (an index past the 8 pixels); pos is the cursor left behind.
Ret(res, pos, pixels) == [res |-> res, pos |-> pos, pixels |-> pixels]

NoPixels == << >>
ZeroPixels == <<0, 0, 0, 0, 0, 0, 0, 0>>

\* (mutant) the second column of a merged store is forgotten.
MergedStoreOneColumn(pixels, col) == [pixels EXCEPT ![col + 1] = 127]

\* pixels[..] = 0x7F twice
MergedStore(pixels, col) == [pixels EXCEPT ![col + 1] = 127, ![col + 2] = 127]

\* pixels[..] = 0xFF
HalfStore(pixels, col) == [pixels EXCEPT ![col + 1] = 255]

\* The while loop reading words up to jr $s0, then the delay slot.
RECURSIVE StoreScan(_, _, _)
StoreScan(d, pos, pixels) ==
    LET r == read_u32(d, pos) IN
    IF ~r.ok THEN Ret("Err", r.pos, NoPixels)
    ELSE IF r.val = JR_S0
      THEN LET e == read_u32(d, r.pos) IN
           IF e.ok THEN Ret("Some", e.pos, pixels)
                   ELSE Ret("Err", e.pos, NoPixels)
      ELSE LET w      == (r.val[1] \div 4) = 43     \* instr & 0xFC000000 == 0xAC000000
               offset == r.val[3] * 256 + r.val[4]  \* instr & 0x0000FFFF
               col    == offset \div 2
           IN IF w
                THEN IF col + 1 >= 8
                       THEN Ret("Panic", r.pos, NoPixels)
                       ELSE StoreScan(d, r.pos, MergedStore(pixels, col))
                ELSE IF col >= 8
                       THEN Ret("Panic", r.pos, NoPixels)
                       ELSE StoreScan(d, r.pos, HalfStore(pixels, col))

\* The terminator arm: four more words are consumed.
RECURSIVE Skip(_, _, _)
Skip(d, pos, n) ==
    IF n = 0 THEN Ret("None", pos, NoPixels)
    ELSE LET r == read_u32(d, pos) IN
         IF r.ok THEN Skip(d, r.pos, n - 1) ELSE Ret("Err", r.pos, NoPixels)

parse_function(d, pos) ==
    LET p1 == read_u32(d, pos) IN
    IF ~p1.ok THEN Ret("Err", p1.pos, NoPixels)
    ELSE LET p2 == read_u32(d, p1.pos) IN
         IF ~p2.ok THEN Ret("Err", p2.pos, NoPixels)
         ELSE IF p1.val = LW_S0 /\ p2.val = ADDI_A0
                THEN StoreScan(d, p2.pos, ZeroPixels)
              ELSE IF p1.val = LW_S1_SP /\ p2.val = ADDI_SP
                THEN Skip(d, p2.pos, 4)
              ELSE Ret("None", p2.pos, NoPixels)

---------------------------------------------------------------------------
(* build *)

RECURSIVE BitAnd(_, _)
BitAnd(a, b) ==
    IF a = 0 \/ b = 0 THEN 0
    ELSE (a % 2) * (b % 2) + 2 * BitAnd(a \div 2, b \div 2)

RECURSIVE BitOr(_, _)
BitOr(a, b) ==
    IF a = 0 THEN b ELSE IF b = 0 THEN a
    ELSE (IF a % 2 = 1 \/ b % 2 = 1 THEN 1 ELSE 0) + 2 * BitOr(a \div 2, b \div 2)

\* ((i << 3) & 0b11111000) | ((i >> 4) & 0b00000110), in u8
CanonicalRow(i) == BitOr(BitAnd((i * 8) % 256, 248), BitAnd(i \div 16, 6))

\* for i in 0..(1 << 7) { rows.push(..) }
rows == [j \in 1..128 |-> CanonicalRow(j - 1)]

\* slice.chunks_exact(n): the whole chunks, a remainder dropped.
chunks_exact(s, n) ==
    [j \in 1..(Len(s) \div n) |-> SubSeq(s, (j - 1) * n + 1, j * n)]

\* for i in row { b = (b << 1) | (*i != 0) as u8 }
RECURSIVE PackBits(_, _)
PackBits(px, b) ==
    IF px = << >> THEN b
    ELSE PackBits(Tail(px),
                  BitOr((b * 2) % 256, IF Head(px) # 0 THEN 1 ELSE 0))

\* One glyph: for (index, row) in ch.chunks_exact(8).enumerate() { buf[index] = b }
PackChar(ch) ==
    LET rs == chunks_exact(ch, 8) IN [r \in 1..8 |-> PackBits(rs[r], 0)]

\* for ch in data.chunks_exact(8 * 8) { .. char_rows.push(buf) }
PackChars(d) ==
    LET chs == chunks_exact(d, 8 * 8) IN
    [c \in 1..Len(chs) |-> PackChar(chs[c])]

\* Option<&[u8]>
None == [some |-> FALSE, bytes |-> << >>]
Some(bytes) == [some |-> TRUE, bytes |-> bytes]

\* if let Some(e) = extra { for row in e.chunks_exact(8) { .. extra_rows.push(b) } }
PreloadExtra(e) ==
    IF e.some
      THEN LET rs == chunks_exact(e.bytes, 8) IN
           [j \in 1..Len(rs) |-> PackBits(rs[j], 0)]
      ELSE << >>

\* Vec::contains
Contains(s, x) == \E j \in 1..Len(s) : s[j] = x

\* if !rows.contains(i) && !extra_rows.contains(i) { extra_rows.push(*i) }
PushIfNew(acc, i) ==
    IF ~Contains(rows, i) /\ ~Contains(acc, i) THEN Append(acc, i) ELSE acc

\* for i in ch { .. }
RECURSIVE ScanChar(_, _, _)
ScanChar(ch, r, acc) ==
    IF r > Len(ch) THEN acc ELSE ScanChar(ch, r + 1, PushIfNew(acc, ch[r]))

\* for ch in &char_rows { .. }
RECURSIVE ScanChars(_, _, _)
ScanChars(chs, c, acc) ==
    IF c > Len(chs) THEN acc ELSE ScanChars(chs, c + 1, ScanChar(chs[c], 1, acc))

\* {i:08b}: the eight binary digits of a pattern, most significant first.
Bin8(i) == [k \in 1..8 |-> (i \div 2^(8 - k)) % 2]

\* One item of the output text. kind is "text" (an included asset), "EXPORT",
\* "word" (a table entry) or "LEAF" (LEAF(name), the body, END(name)); a label
\* row_<mode>_<digits> is the pair mode, digits; row_end is mode "end".
Item(kind, mode, digits, body) ==
    [kind |-> kind, mode |-> mode, digits |-> digits, body |-> body]

NoDigits == << >>
PROLOGUE == Item("text", "PROLOGUE", NoDigits, << >>)
EPILOGUE == Item("text", "EPILOGUE", NoDigits, << >>)
ROW_END == Item("text", "ROW_END", NoDigits, << >>)
WordRowEnd == Item("word", "end", NoDigits, << >>)
Export(label) == Item("EXPORT", label, NoDigits, << >>)

\* for i in row { rv += ".word row_<mode>_{i:08b}" }
Words(ch, mode) == [r \in 1..Len(ch) |-> Item("word", mode, Bin8(ch[r]), << >>)]

\* The body of the loop over char_rows.iter().enumerate().
GlyphTable(index, ch, first_label, second_label) ==
    (IF index = 0 THEN << Export(first_label) >> ELSE << >>)
    \o Words(ch, "single") \o << WordRowEnd >>
    \o (IF index = 0 THEN << Export(second_label) >> ELSE << >>)
    \o Words(ch, "double") \o << WordRowEnd >>

RECURSIVE Tables(_, _, _, _)
Tables(chs, c, first_label, second_label) ==
    IF c > Len(chs) THEN << >>
    ELSE GlyphTable(c - 1, chs[c], first_label, second_label)
         \o Tables(chs, c + 1, first_label, second_label)

\* for &i in &list { LEAF(name), build_function(i, double, extra.is_some()), END(name) }
Leafs(list, mode, m) ==
    [j \in 1..Len(list) |->
        Item("LEAF", mode, Bin8(list[j]), build_function(list[j], mode = "double", m))]

\* The two loops over &rows, for either value of extra.is_some() (tabulated:
\* they do not depend on the glyphs).
CanonicalLeafs ==
    [m \in BOOLEAN |-> [mode \in {"single", "double"} |-> Leafs(rows, mode, m)]]

\* (mutant) the two extra blocks change places.
RoutineSectionExtraSwapped(ex, m) ==
    CanonicalLeafs[m]["single"] \o << ROW_END >> \o CanonicalLeafs[m]["double"]
    \o Leafs(ex, "single", m) \o Leafs(ex, "double", m)

\* The four loops after the tables, with ROW_END after the first.
RoutineSection(ex, m) ==
    CanonicalLeafs[m]["single"] \o << ROW_END >> \o CanonicalLeafs[m]["double"]
    \o Leafs(ex, "double", m) \o Leafs(ex, "single", m)

\* build's result: the output text, and the two tables it computed on the way.
build(d, first_label, second_label, e) ==
    LET chs == PackChars(d)
        ex  == ScanChars(chs, 1, PreloadExtra(e))
    IN [char_rows  |-> chs,
        extra_rows |-> ex,
        out |-> << PROLOGUE >>
                \o Tables(chs, 1, first_label, second_label)
                \o RoutineSection(ex, e.some)
                \o << EPILOGUE >>]

---------------------------------------------------------------------------
(* extract *)

\* A u32 as its two 16-bit halves.
U32(hi, lo) == [hi |-> hi, lo |-> lo]

\* The value of the four big-endian bytes read_u32 returned.
FromBE(w) == U32(w[1] * 256 + w[2], w[3] * 256 + w[4])

ToBE(u) == <<u.hi \div 256, u.hi % 256, u.lo \div 256, u.lo % 256>>

\* a + n in u32, n < 2^16: the wrapped sum, and whether it overflowed.
U32Add(a, n) ==
    LET lo == a.lo + n
        hi == a.hi + lo \div 65536
    IN [val |-> U32(hi % 65536, lo % 65536), overflow |-> hi >= 65536]

\* a - b in u32: the wrapped difference, and whether it underflowed.
U32Sub(a, b) ==
    LET borrow == IF a.lo < b.lo THEN 1 ELSE 0
        lo     == a.lo - b.lo + 65536 * borrow
        hi     == a.hi - b.hi - borrow
    IN [val |-> U32((hi + 65536) % 65536, lo), overflow |-> hi < 0]

\* *offset as u64, for set_position. Every position from 2^30 on is past the
\* end of any blob here and is kept as 2^30.
AsPos(u) == IF u.hi >= 16384 THEN 1073741824 ELSE u.hi * 65536 + u.lo

\* let offsets_len = num_chars * 9 * size_of::<u32>() * 2
OffsetsLen(n) == n * 9 * SizeOfU32 * 2

\* &data[offsets_len..]
CodeOf(d, n) == SubSeq(d, OffsetsLen(n) + 1, Len(d))

\* while let Ok(offset) = cursor.read_u32::<BE>() { offsets.push(offset - data_vram) }
\* over &data[..offsets_len]: the differences, and whether one underflowed.
ReadOffsets(d, n, data_vram) ==
    LET words == chunks_exact(SubSeq(d, 1, OffsetsLen(n)), 4)
        subs  == [j \in 1..Len(words) |-> U32Sub(FromBE(words[j]), data_vram)]
    IN [vals |-> [j \in 1..Len(subs) |-> subs[j].val],
        overflow |-> \E j \in 1..Len(subs) : subs[j].overflow]

\* slice.chunks(n): the last chunk may be shorter.
chunks(s, n) ==
    [j \in 1..((Len(s) + n - 1) \div n) |->
        SubSeq(s, (j - 1) * n + 1, IF j * n < Len(s) THEN j * n ELSE Len(s))]

\* for chunk in offsets.chunks(9).collect().chunks(2) { if let [block, _] = chunk
\* { for offset in &block[..8] .. } }: the offsets decoded, in order.
RECURSIVE PrimaryOf(_, _)
PrimaryOf(pairs, j) ==
    IF j > Len(pairs) THEN << >>
    ELSE (IF Len(pairs[j]) = 2 THEN SubSeq(pairs[j][1], 1, 8) ELSE << >>)
         \o PrimaryOf(pairs, j + 1)

PrimaryOffsets(offs) == PrimaryOf(chunks(chunks(offs, 9), 2), 1)

---------------------------------------------------------------------------
(* Emitting one routine, assembling it and decoding it again *)

NoRet == Ret("none", 0, NoPixels)

\* The variables build alone uses, and their value in a run that is no build.
buildVars == <<extra, char_rows, extra_rows, out>>
BuildIdle == extra = None /\ char_rows = << >> /\ extra_rows = << >> /\ out = << >>

\* The variables extract alone uses, and their value in a run that is no extract.
extractVars ==
    <<vram, num_chars, extra_offset, overflow_checks, offsets, cursor,
      called_at, next_row, font, extra_out, outcome>>
ExtractIdle ==
    /\ vram = U32(0, 0) /\ num_chars = 0 /\ extra_offset = 0
    /\ overflow_checks = FALSE /\ offsets = << >> /\ cursor = 0
    /\ called_at = 0 /\ next_row = 0 /\ font = << >> /\ extra_out = << >>
    /\ outcome = "running"

InitEmit ==
    /\ pc = "emit"
    /\ row \in Byte
    /\ double \in BOOLEAN
    /\ matching \in BOOLEAN
    /\ rv = << >>
    /\ data = << >>
    /\ parsed = NoRet
    /\ BuildIdle
    /\ ExtractIdle

Emit ==
    /\ pc = "emit"
    /\ rv' = build_function(row, double, matching)
    /\ pc' = "assemble"
    /\ UNCHANGED <<row, double, matching, data, parsed, buildVars, extractVars>>

AssembleRoutine ==
    /\ pc = "assemble"
    /\ data' = Assemble(rv)
    /\ pc' = "decode"
    /\ UNCHANGED <<row, double, matching, rv, parsed, buildVars, extractVars>>

Decode ==
    /\ pc = "decode"
    /\ parsed' = parse_function(data, 0)
    /\ pc' = "decoded"
    /\ UNCHANGED <<row, double, matching, rv, data, buildVars, extractVars>>

vars == <<pc, row, double, matching, rv, data, parsed, buildVars, extractVars>>

NextEmit == Emit \/ AssembleRoutine \/ Decode

SpecEmit == InitEmit /\ [][NextEmit]_vars

---------------------------------------------------------------------------
(* Properties of build_function and of the round trip (SpecEmit) *)

\* Bit k of a row pattern, MSB-first: pixel column k.
BitAt(r, k) == (r \div 2^(7 - k)) % 2

\* The stores of an emitted routine: what lies between the two prologue
\* lines and the jr / delay-slot pair.
StoresOf(body) == SubSeq(body, 3, Len(body) - 2)

HasFrame(body) ==
    /\ Len(body) >= 4
    /\ body[1] = Instr("lw", 0)
    /\ body[2] = Instr("addi_a0", 4)
    /\ body[Len(body) - 1] = Instr("jr", 0)
    /\ body[Len(body)] = Instr("addi_a1", 1280)

\* A half-store / merged store at pixel column c: byte offset 2 * c.
ShAt(c) == Instr("sh", 2 * c)
SwAt(c) == Instr("sw", 2 * c)

\* The bit-pair table, group g of pattern r, without the patch.
TableGroup(r, g, d) ==
    LET hi == BitAt(r, 2 * g)
        lo == BitAt(r, 2 * g + 1)
    IN CASE hi = 0 /\ lo = 0 -> << >>
         [] hi = 0 /\ lo = 1 -> << ShAt(2 * g + 1) >>
         [] hi = 1 /\ lo = 0 -> << ShAt(2 * g) >>
         [] hi = 1 /\ lo = 1 -> IF d THEN << SwAt(2 * g) >>
                                     ELSE << ShAt(2 * g), ShAt(2 * g + 1) >>

TableStores(r, d) ==
    TableGroup(r, 0, d) \o TableGroup(r, 1, d)
    \o TableGroup(r, 2, d) \o TableGroup(r, 3, d)

\* C1: with patch mode off, the stores build_function emits for a pattern are
\* exactly those of the bit-pair table, group by group in ascending order, at
\* byte offset 2 * column; 0b00000000 emits no store in either mode and
\* 0b10100000 in single-width mode emits half-stores at columns 0 and 2 only.
C1_BitPairTable ==
    (pc # "emit" /\ ~matching) =>
        /\ HasFrame(rv)
        /\ StoresOf(rv) = TableStores(row, double)
        /\ row = 0 => StoresOf(rv) = << >>
        /\ (row = 160 /\ ~double) => StoresOf(rv) = << ShAt(0), ShAt(2) >>

C1_Witness ==
    /\ pc = "assemble" /\ ~matching /\ ~double /\ row = 160
    /\ StoresOf(rv) = << Instr("sh", 0), Instr("sh", 4) >>

\* A value of the canonical 128-entry table.
IsCanonical(v) == \E i \in 0..127 : CanonicalRow(i) = v

C3_Original ==
    (pc = "decoded" /\ ~matching) =>
        /\ parsed.res = "Some"
        /\ \A k \in 0..7 :
              parsed.pixels[k + 1] = IF BitAt(row, k) = 1 THEN 255 ELSE 0

\* Column k belongs to a 11 group of the pattern.
InFullGroup(r, k) ==
    LET g == k \div 2 IN BitAt(r, 2 * g) = 1 /\ BitAt(r, 2 * g + 1) = 1

\* C3 (amended): patch off: the decoded row is 0x00 at every unlit column;
\* at a lit column it is 0xFF in single-width mode and in double-width mode
\* for a 01 or 10 group, and 0x7F in double-width mode at both columns of a
\* 11 group (the merged store). The whole routine is consumed.
C3_RoundTrip ==
    (pc = "decoded" /\ ~matching) =>
        /\ parsed.res = "Some"
        /\ parsed.pos = Len(data)
        /\ \A k \in 0..7 :
              parsed.pixels[k + 1] =
                  IF BitAt(row, k) = 0 THEN 0
                  ELSE IF double /\ InFullGroup(row, k) THEN 127
                  ELSE 255

C3_Witness ==
    /\ pc = "decoded" /\ ~matching /\ double /\ row = 200
    /\ parsed.res = "Some"
    /\ parsed.pixels = <<127, 127, 0, 0, 255, 0, 0, 0>>

---------------------------------------------------------------------------
(* Decoding a routine with an arbitrary store sequence (SpecParse) *)

\* At most this many store instructions in a decoded routine.
MaxStores == 3

\* Half-stores at columns 0..7 and merged stores at columns 0..6.
StoreChoices ==
    { Instr("sh", 2 * c) : c \in 0..7 } \cup { Instr("sw", 2 * c) : c \in 0..6 }

StoreSeqs == UNION { [1..n -> StoreChoices] : n \in 0..MaxStores }

Framed(stores) ==
    << Instr("lw", 0), Instr("addi_a0", SizeOfU32) >>
    \o stores
    \o << Instr("jr", 0), Instr("addi_a1", SCREEN_WIDTH * SizeOfPixel) >>

InitParse ==
    /\ pc = "assemble"
    /\ row = 0
    /\ double = FALSE
    /\ matching = FALSE
    /\ \E ss \in StoreSeqs : rv = Framed(ss)
    /\ data = << >>
    /\ parsed = NoRet
    /\ BuildIdle
    /\ ExtractIdle

NextParse == AssembleRoutine \/ Decode

SpecParse == InitParse /\ [][NextParse]_vars

\* The store at place j of a store sequence writes column c.
Covers(stores, j, c) ==
    \/ stores[j].op = "sh" /\ stores[j].imm = 2 * c
    \/ stores[j].op = "sw" /\ (stores[j].imm = 2 * c \/ stores[j].imm = 2 * (c - 1))

WritesTo(stores, c) == { j \in 1..Len(stores) : Covers(stores, j, c) }

\* C4 (as stated): a column written more than once ends 0xBF; written once,
\* 0xFF by a half-store and 0x7F by a merged store; never written, 0x00.
C4_ReStore ==
    pc = "decoded" =>
        /\ parsed.res = "Some"
        /\ \A c \in 0..7 :
              LET ws == WritesTo(StoresOf(rv), c) IN
              parsed.pixels[c + 1] =
                  IF ws = {} THEN 0
                  ELSE IF Cardinality(ws) >= 2 THEN 191
                  ELSE IF StoresOf(rv)[CHOOSE j \in ws : TRUE].op = "sh" THEN 255
                  ELSE 127

---------------------------------------------------------------------------
(* Building a module from a glyph image (SpecBuild) *)

\* At most this many glyphs in the input image.
MaxGlyphs == 2
\* At most this many rows in the preloaded extra-row image.
MaxExtra == 2

\* The row patterns the input glyphs are made of: one of the canonical table
\* (0b11011000) and two that are not.
RowChoices == {216, 1, 3}
\* The row patterns of a preloaded extra-row image.
ExtraChoices == {216, 1}

\* The 8 pixels of a row as the image decoder hands them over (to_luma8): a lit
\* pixel is any nonzero byte, here 0xFF in the even columns and 0x01 in the odd.
RowPixels(r) ==
    [k \in 1..8 |-> IF (r \div 2^(8 - k)) % 2 = 0 THEN 0
                    ELSE IF k % 2 = 1 THEN 255 ELSE 1]

\* An 8 x 8 glyph: pattern a in its upper four rows, b in its lower four.
GlyphPixels(a, b) ==
    RowPixels(a) \o RowPixels(a) \o RowPixels(a) \o RowPixels(a)
    \o RowPixels(b) \o RowPixels(b) \o RowPixels(b) \o RowPixels(b)

GlyphChoices == { GlyphPixels(a, b) : a \in RowChoices, b \in RowChoices }

RECURSIVE Concat(_)
Concat(ss) == IF ss = << >> THEN << >> ELSE Head(ss) \o Concat(Tail(ss))

\* The images: width 8, height a multiple of 8 (main asserts both).
Images ==
    { Concat(gs) : gs \in UNION { [1..n -> GlyphChoices] : n \in 0..MaxGlyphs } }

ExtraImages ==
    { Concat([j \in 1..Len(rs) |-> RowPixels(rs[j])]) :
        rs \in UNION { [1..n -> ExtraChoices] : n \in 0..MaxExtra } }

FirstLabel == "first_label"
SecondLabel == "second_label"

InitBuild ==
    /\ pc = "build"
    /\ row = 0
    /\ double = FALSE
    /\ matching = FALSE
    /\ rv = << >>
    /\ parsed = NoRet
    /\ data \in Images
    /\ extra \in {None} \cup { Some(e) : e \in ExtraImages }
    /\ char_rows = << >>
    /\ extra_rows = << >>
    /\ out = << >>
    /\ ExtractIdle

Build ==
    /\ pc = "build"
    /\ LET b == build(data, FirstLabel, SecondLabel, extra) IN
         /\ char_rows' = b.char_rows
         /\ extra_rows' = b.extra_rows
         /\ out' = b.out
    /\ pc' = "built"
    /\ UNCHANGED <<row, double, matching, rv, data, parsed, extra, extractVars>>

NextBuild == Build

SpecBuild == InitBuild /\ [][NextBuild]_vars

\* The LEAF bodies of the output that define the label of a table entry.
Definitions(w) ==
    { j \in 1..Len(out) :
        out[j].kind = "LEAF" /\ out[j].mode = w.mode /\ out[j].digits = w.digits }

\* C5 (as stated): every routine label referenced from the per-glyph tables is
\* defined by exactly one LEAF body of the output, for every glyph set and
\* every preloaded extra-row list.
C5_OneDefinition ==
    pc = "built" =>
        \A j \in 1..Len(out) :
            (out[j].kind = "word" /\ out[j].mode # "end") =>
                Cardinality(Definitions(out[j])) = 1

\* The rows of all glyphs, glyphs in order, rows top to bottom.
RECURSIVE AllRows(_)
AllRows(chs) == IF chs = << >> THEN << >> ELSE Head(chs) \o AllRows(Tail(chs))

\* The values of a sequence in the order of their first occurrence.
RECURSIVE FirstSeen(_, _)
FirstSeen(s, acc) ==
    IF s = << >> THEN acc
    ELSE FirstSeen(Tail(s),
                   IF \E j \in 1..Len(acc) : acc[j] = Head(s)
                     THEN acc ELSE Append(acc, Head(s)))

\* C6 (as stated): after the scan the extra-row table has no duplicate, holds
\* no canonical value, and lists the non-canonical glyph rows in the order of
\* their first occurrence, with or without a preloaded list.
C6_ExtraTable ==
    pc = "built" =>
        /\ \A i, j \in 1..Len(extra_rows) : extra_rows[i] = extra_rows[j] => i = j
        /\ \A i \in 1..Len(extra_rows) : ~IsCanonical(extra_rows[i])
        /\ extra_rows = FirstSeen(SelectSeq(AllRows(char_rows),
                                            LAMBDA v : ~IsCanonical(v)), << >>)

\* kind, mode and digits of the items from place a to place b.
Keys(s, a, b) ==
    [j \in 1..(b - a + 1) |->
        <<s[a + j - 1].kind, s[a + j - 1].mode, s[a + j - 1].digits>>]

LeafKeys(list, mode) == [j \in 1..Len(list) |-> <<"LEAF", mode, Bin8(list[j])>>]

\* The canonical blocks: pattern CanonicalRow(i) at place i, i = 0..127.
CanonicalKeys ==
    [mode \in {"single", "double"} |->
        [j \in 1..128 |-> <<"LEAF", mode, Bin8(CanonicalRow(j - 1))>>]]

\* C9: the routine bodies are written as: canonical single-width routines in
\* canonical index order, the terminator routine, canonical double-width
\* routines in canonical index order, extra double-width routines, extra
\* single-width routines (both in extra-table order); every table entry and
\* export comes before the first of them, and only the epilogue after.
C9_SectionOrder ==
    pc = "built" =>
        LET t == 18 * Len(char_rows) + (IF Len(char_rows) > 0 THEN 2 ELSE 0) + 1
            n == Len(out)
        IN /\ n = t + 257 + 2 * Len(extra_rows) + 1
           /\ out[1] = PROLOGUE
           /\ \A j \in 2..t : out[j].kind \in {"word", "EXPORT"}
           /\ Keys(out, t + 1, n - 1) =
                  CanonicalKeys["single"]
                  \o << <<"text", "ROW_END", NoDigits>> >>
                  \o CanonicalKeys["double"]
                  \o LeafKeys(extra_rows, "double")
                  \o LeafKeys(extra_rows, "single")
           /\ out[n] = EPILOGUE

C9_Witness ==
    /\ pc = "built"
    /\ Len(char_rows) = 2
    /\ extra_rows = <<3, 1>>
    /\ out[39 + 257 + 1].digits = Bin8(3) /\ out[39 + 257 + 1].mode = "double"
    /\ out[39 + 257 + 3].digits = Bin8(3) /\ out[39 + 257 + 3].mode = "single"

---------------------------------------------------------------------------
(* Extracting a font from a binary blob (SpecExtract) *)

\* At most this many glyphs in the offset table.
MaxChars == 1
\* At most this many routines in the code region of the blob.
MaxRoutines == 2
\* At most this many bytes missing at the end of the blob.
MaxCut == 2

NOP == <<0, 0, 0, 0>>

\* A row routine as build writes it (pattern 0b11001000, double width).
RowRoutine == Assemble(build_function(200, TRUE, FALSE))
\* The terminator routine: its prologue and four more words.
Terminator == LW_S1_SP \o ADDI_SP \o NOP \o NOP \o NOP \o NOP
\* Two words that are neither prologue.
Unrecognized == NOP \o NOP
\* A row routine with a store past the eighth column: sh $s1, 16($a1).
BadColumn == Assemble(Framed(<< Instr("sh", 16) >>))

RoutineChoices == {RowRoutine, Terminator, Unrecognized, BadColumn}

RoutineSeqs == UNION { [1..n -> RoutineChoices] : n \in 0..MaxRoutines }

\* Where a table entry points: at the first routine, at the second, or below
\* the code region (an address smaller than data_vram).
TargetChoices == {"first", "second", "below"}

\* 0x80100000, and an address so high that vram + offsets_len overflows.
VramChoices == { U32(32784, 0), U32(65535, 65520) }

ExtraOffsets == {0, 8, 4096}

\* The absolute address a table entry holds.
Address(target, rs, v, n) ==
    CASE target = "first"  -> U32Add(v, OffsetsLen(n)).val
      [] target = "second" ->
            U32Add(v, OffsetsLen(n) + (IF rs = << >> THEN 0 ELSE Len(rs[1]))).val
      [] target = "below"  -> v

\* One block of 9 addresses: the rows at `a`, the fourth row at `b`, then the
\* terminator's entry.
Block(a, b) == ToBE(a) \o ToBE(a) \o ToBE(a) \o ToBE(b) \o ToBE(a)
               \o ToBE(a) \o ToBE(a) \o ToBE(a) \o ToBE(a)

\* The offset table of n glyphs: a primary and a shadow block each.
OffsetTable(n, a, b) == Concat([g \in 1..(2 * n) |-> Block(a, b)])

Blobs(n, v) ==
    { LET whole == OffsetTable(n, Address(ta, rs, v, n), Address(tb, rs, v, n))
                   \o Concat(rs)
      IN SubSeq(whole, 1, IF Len(whole) >= cut THEN Len(whole) - cut ELSE 0) :
        rs \in RoutineSeqs, ta \in TargetChoices, tb \in TargetChoices,
        cut \in {0, MaxCut} }

InitExtract ==
    /\ pc = "extract"
    /\ row = 0 /\ double = FALSE /\ matching = FALSE /\ rv = << >>
    /\ parsed = NoRet
    /\ BuildIdle
    /\ num_chars \in 0..MaxChars
    /\ vram \in VramChoices
    /\ extra_offset \in ExtraOffsets
    /\ overflow_checks \in BOOLEAN
    /\ data \in Blobs(num_chars, vram)
    /\ offsets = << >> /\ cursor = 0 /\ called_at = 0 /\ next_row = 0
    /\ font = << >> /\ extra_out = << >>
    /\ outcome = "running"

emitState == <<row, double, matching, rv>>
extractInputs == <<data, vram, num_chars, extra_offset, overflow_checks>>

\* Lines 283-296: the offset table is read and the code cursor made.
ReadTable ==
    /\ pc = "extract" /\ outcome = "running"
    /\ LET len == OffsetsLen(num_chars)
           dv  == U32Add(vram, len)                 \* vram + offsets_len as u32
           ro  == ReadOffsets(data, num_chars, dv.val)
       IN IF \/ (dv.overflow /\ overflow_checks)
             \/ Len(data) < len                      \* &data[..offsets_len]
             \/ (ro.overflow /\ overflow_checks)     \* offset - data_vram
            THEN outcome' = "panic" /\ UNCHANGED <<pc, offsets>>
            ELSE /\ offsets' = ro.vals
                 /\ pc' = "primary"
                 /\ UNCHANGED outcome
    /\ UNCHANGED <<emitState, extractInputs, parsed, buildVars,
                   cursor, called_at, next_row, font, extra_out>>

\* How one call of parse_function ends for extract's two loops:
\* `if let Some(l) = parse_function(&mut cursor)? { v.extend(l.iter()) }`.
AfterCall(r, v) ==
    [out_ |-> IF r.res = "Some" THEN v \o r.pixels ELSE v,
     outcome |-> CASE r.res = "Err"   -> "err"
                   [] r.res = "Panic" -> "panic"
                   [] OTHER           -> "running"]

\* Lines 300-304: one primary row offset is decoded.
DecodeRow ==
    /\ pc = "primary" /\ outcome = "running"
    /\ next_row < Len(PrimaryOffsets(offsets))
    /\ LET pos == AsPos(PrimaryOffsets(offsets)[next_row + 1])  \* set_position
           r   == parse_function(CodeOf(data, num_chars), pos)
           a   == AfterCall(r, font)
       IN /\ called_at' = pos
          /\ parsed' = r
          /\ cursor' = r.pos
          /\ font' = a.out_
          /\ outcome' = a.outcome
    /\ next_row' = next_row + 1
    /\ UNCHANGED <<pc, emitState, extractInputs, buildVars, offsets, extra_out>>

\* Lines 309-311: the primary loop is over, the cursor goes to extra_offset.
StartScan ==
    /\ pc = "primary" /\ outcome = "running"
    /\ next_row = Len(PrimaryOffsets(offsets))
    /\ cursor' = extra_offset
    /\ parsed' = NoRet
    /\ pc' = "extra"
    /\ UNCHANGED <<emitState, extractInputs, buildVars, offsets, called_at,
                   next_row, font, extra_out, outcome>>

\* The loop condition: (cursor.position() as usize) < data.len() - offsets_len
InRegion == cursor < Len(data) - OffsetsLen(num_chars)

\* Lines 312-316: one routine of the extra region is decoded.
ScanRoutine ==
    /\ pc = "extra" /\ outcome = "running"
    /\ InRegion
    /\ LET r == parse_function(CodeOf(data, num_chars), cursor)
           a == AfterCall(r, extra_out)
       IN /\ called_at' = cursor
          /\ parsed' = r
          /\ cursor' = r.pos
          /\ extra_out' = a.out_
          /\ outcome' = a.outcome
    /\ UNCHANGED <<pc, emitState, extractInputs, buildVars, offsets, next_row, font>>

\* Line 318: Ok((font, extra))
Finish ==
    /\ pc = "extra" /\ outcome = "running"
    /\ ~InRegion
    /\ outcome' = "ok"
    /\ UNCHANGED <<pc, emitState, extractInputs, parsed, buildVars, offsets,
                   cursor, called_at, next_row, font, extra_out>>

NextExtract == ReadTable \/ DecodeRow \/ StartScan \/ ScanRoutine \/ Finish

SpecExtract == InitExtract /\ [][NextExtract]_vars

\* The scan makes progress: a call of parse_function after which the scan goes
\* on has moved the cursor by at least the two prologue words, so the scan
\* takes at most (region length / 8) + 1 calls.
ScanProgress ==
    [][(pc = "extra" /\ outcome' = "running") => cursor' >= cursor + 8]_vars

\* What decoding primary row offset j gives when done on its own.
RowAt(j) ==
    parse_function(CodeOf(data, num_chars), AsPos(PrimaryOffsets(offsets)[j]))

\* C7 (as stated): once the primary loop has ended without a failed read, the
\* primary output holds 8 rows of 8 bytes per glyph, the row of an offset whose
\* prologue is not a row routine's being all zero, every row at its place.
C7_BlankRow ==
    pc = "extra" =>
        /\ Len(font) = 64 * num_chars
        /\ \A j \in 1..(8 * num_chars) :
              SubSeq(font, 8 * (j - 1) + 1, 8 * j) =
                  IF RowAt(j).res = "Some" THEN RowAt(j).pixels ELSE ZeroPixels

\* C8 (as stated): on a blob shorter than offsets_len, extract ends by
\* returning an error, with no pixel output.
C8_ShortBlob ==
    (outcome # "running" /\ Len(data) < num_chars * 9 * 4 * 2) =>
        /\ outcome = "err"
        /\ font = << >> /\ extra_out = << >>

\* C10 (as stated): in the extra-region scan every call of parse_function
\* returns a read error or leaves the cursor at least two words further, and
\* the scan ends with Ok and the cursor at or past the end of the code region,
\* or with the propagated read error.
C10_ScanEnds ==
    pc = "extra" =>
        /\ parsed # NoRet =>
              \/ parsed.res = "Err"
              \/ parsed.res \in {"Some", "None"} /\ cursor >= called_at + 8
        /\ outcome # "running" =>
              \/ outcome = "ok" /\ cursor >= Len(data) - OffsetsLen(num_chars)
              \/ outcome = "err" /\ parsed.res = "Err"

====
